---------------------------- MODULE Spec2Model ----------------------------
(***************************************************************************)
(* Model of the communication-graph expansion pipeline of                  *)
(* commGenerator.py: gen_message_volumes -> initialize_graph ->            *)
(* generate_edges -> remove_isolated_nodes -> part_array -> write_mtx.     *)
(*                                                                         *)
(* Reals in [0,1] are the fractions n/Den.  A random.Random(seed) stream   *)
(* is a tape of call results: with seed None every call returns any value  *)
(* it can return; with a seed the first run through a stream fixes the     *)
(* result of each call, and a later run that makes the same calls gets     *)
(* the same results.  The graph library (networkit) is modelled by what    *)
(* its calls do: addEdge appends an edge without looking for an existing   *)
(* one, removeNode keeps the ids of the other nodes.                       *)
(***************************************************************************)
EXTENDS Integers, Sequences, FiniteSets, TLC

\* ------------------------------------------------------------- bounds
NumProcs    == 3   \* processes of the coarse graph
MaxTotalVol == 4   \* sum of the volumes of the coarse graph
MaxVolBound == 2   \* largest max_volume tried
MaxSkew     == 2   \* largest (integer) skew exponent tried
Den         == 2   \* resolution of a draw in [0,1]: the fractions n/Den
NumSeeds    == 2   \* seeds tried per stage in the two-run specification
MaxRerunVol == 2   \* edges of the coarse graph in the two-run specification

\* ------------------------------------------------------------- program constants
max_tries    == 50   \* _sample_trunc_normal_01(max_tries=50)
LognormCap   == 50   \* min(x, 50.0) / 50.0

VARIABLES
    pc,          \* where generate_communication stands
    err,         \* the exception that ended the run, or "none"
    cfg,         \* the JSON configuration: the three sections and their seeds
    commEdges,   \* G_directed: the set of directed edges <<u, v>>
    weight,      \* G_directed: weight of every directed edge
    raw,         \* gen_message_volumes: the list raw
    rng,         \* the random.Random(seed) of the stage that is running
    tape,        \* what each seeded stream has returned so far, per stage and seed
    part_sizes,  \* the partition-size array (rebound by remove_isolated_nodes)
    init_sizes,  \* the array initialize_graph returned (history of part_sizes)
    ig,          \* initialize_graph: the process the loop stands at
    ge,          \* locals of generate_edges
    nodes,       \* expanded graph: the node ids that exist
    adj,         \* expanded graph: multiplicity of every undirected edge {a, b}
    part_array,  \* the partition-assignment array
    mtx,         \* what write_mtx wrote: the header and the 1-based edge lines
    prev         \* two-run specification: what the first run produced

vars == <<pc, err, cfg, commEdges, weight, raw, rng, tape, part_sizes, init_sizes, ig,
          ge, nodes, adj, part_array, mtx, prev>>

Procs == 0 .. NumProcs - 1

Min(a, b) == IF a <= b THEN a ELSE b
Max(a, b) == IF a >= b THEN a ELSE b

RECURSIVE Pow(_, _)
Pow(b, e) == IF e = 0 THEN 1 ELSE b * Pow(b, e - 1)

RECURSIVE SumSeq(_)
SumSeq(s) == IF s = <<>> THEN 0 ELSE Head(s) + SumSeq(Tail(s))

RECURSIVE SumOver(_, _)
SumOver(f, S) ==
    IF S = {} THEN 0
    ELSE LET x == CHOOSE y \in S : TRUE IN f[x] + SumOver(f, S \ {x})

\* ------------------------------------------------------------- the coarse graph
\* iterEdges / iterNeighbors order: by source node, then by target node.
EdgeKey(e) == e[1] * NumProcs + e[2]

IterEdges(E) ==
    [i \in 1 .. Cardinality(E) |->
        CHOOSE e \in E : Cardinality({f \in E : EdgeKey(f) < EdgeKey(e)}) = i - 1]

IterNeighbors(E, u) ==
    LET N == {v \in Procs : <<u, v>> \in E}
    IN  [i \in 1 .. Cardinality(N) |->
            CHOOSE v \in N : Cardinality({x \in N : x < v}) = i - 1]

HasEdge(E, u, v) == <<u, v>> \in E

\* ------------------------------------------------------------- random.Random(seed)
\* Seed 0 stands for None (the stream is seeded from the system: any results).
Seeds == 1 .. NumSeeds
Stages == {"volumes", "sizes", "edges"}

NoTape == [k \in Stages \X Seeds |-> <<>>]

\* random.Random(seed): a fresh stream, no call made yet; synced says that every
\* call made so far is the call the tape holds at that place
NewRng(seed) == [seed |-> seed, calls |-> 0, synced |-> TRUE]
NoRng == NewRng(0)

\* One call on the stream rt.rng of stage st, of the given kind, that can return
\* the members of S: the set of [val, rng, tape] it can end in.
Draw(rt, st, kind, S) ==
    LET r == rt.rng
    IN  IF r.seed = 0
        THEN {[val |-> d, rng |-> [r EXCEPT !.calls = @ + 1], tape |-> rt.tape] : d \in S}
        ELSE LET T     == rt.tape[<<st, r.seed>>]
                 known == r.synced /\ r.calls < Len(T)
                 match == known /\ T[r.calls + 1].kind = kind /\ T[r.calls + 1].pop = S
                 first == r.synced /\ r.calls = Len(T)
             IN  {[val  |-> d,
                   rng  |-> [r EXCEPT !.calls = @ + 1, !.synced = match \/ first],
                   tape |-> IF first
                            THEN [rt.tape EXCEPT ![<<st, r.seed>>] =
                                     Append(@, [kind |-> kind, pop |-> S, val |-> d])]
                            ELSE rt.tape] :
                  d \in IF match THEN {T[r.calls + 1].val} ELSE S}

\* ------------------------------------------------------------- gen_message_volumes
Modes == {"power", "lognormal", "uniform"}

\* line 264: seed = msgvol.get("seed")
VolSeed(c) == c.seed_vol

\* mode == "power": x = rng.random() = n/Den, k = skew;
\* x <- 1 - (1-x)^k (heavy tail) or x^k; vol = 1 + int(x * (max_volume - 1)).
PowerVol(n, k, heavy_tail, max_volume) ==
    LET num == IF heavy_tail THEN Pow(Den, k) - Pow(Den - n, k) ELSE Pow(n, k)
    IN  1 + ((num * (max_volume - 1)) \div Pow(Den, k))

\* mode == "lognormal": x = rng.lognormvariate(0, sigma) >= 0;
\* vol = 1 + int(min(x, 50.0) / 50.0 * (max_volume - 1)).
LognormalVol(x, max_volume) ==
    1 + ((Min(x, LognormCap) * (max_volume - 1)) \div LognormCap)

\* rng.random(): n/Den with n < Den
RandomDraws == 0 .. Den - 1

\* rng.lognormvariate(): any x >= 0, here the multiples of cap/Den up to cap + cap/Den
LognormalDraws == {(n * LognormCap) \div Den : n \in 0 .. Den + 1}

\* Python round(): to the nearest integer, ties to the even one (num >= 0, den > 0).
Round(num, den) ==
    LET q == num \div den
        r == num % den
    IN  IF 2 * r < den THEN q
        ELSE IF 2 * r > den THEN q + 1
        ELSE IF q % 2 = 0 THEN q ELSE q + 1

\* the rescaling without its clamp: int(round(vol * scale)) alone
RescaleVolNoClamp(vol, target_mean, vols, max_volume) ==
    Round(vol * target_mean * Len(vols), SumSeq(vols))

\* max(1, min(max_volume, int(round(vol * scale)))), scale = target_mean / cur_mean,
\* cur_mean = sum(raw) / len(raw).
RescaleVol(vol, target_mean, vols, max_volume) ==
    Max(1, Min(max_volume, Round(vol * target_mean * Len(vols), SumSeq(vols))))

\* lines 95-99
Rescaled(vols, c) ==
    IF c.has_target /\ vols # <<>> /\ SumSeq(vols) > 0
    THEN [i \in 1 .. Len(vols) |->
             RescaleVol(vols[i], c.target_mean, vols, c.max_volume)]
    ELSE vols

\* lines 257-265 and 64-68: the call, rng = random.Random(seed), raw = [], edges = []
CallGenMessageVolumes ==
    /\ pc = "start"
    /\ raw' = <<>>
    /\ rng' = NewRng(VolSeed(cfg))
    /\ pc' = "volumes"
    /\ UNCHANGED <<err, cfg, commEdges, weight, tape, part_sizes, init_sizes, ig, ge,
                   nodes, adj, part_array, mtx, prev>>

\* lines 69-92: one turn of the loop over G.iterEdges() with a supported mode
VolumeLoop ==
    /\ pc = "volumes"
    /\ Len(raw) < Cardinality(commEdges)
    /\ cfg.mode \in {"power", "lognormal"}
    /\ \E d \in Draw([rng |-> rng, tape |-> tape], "volumes", cfg.mode,
                     IF cfg.mode = "power" THEN RandomDraws ELSE LognormalDraws) :
          /\ raw' = Append(raw,
                       IF cfg.mode = "power"
                       THEN PowerVol(d.val, cfg.skew, cfg.heavy_tail, cfg.max_volume)
                       ELSE LognormalVol(d.val, cfg.max_volume))
          /\ rng' = d.rng
          /\ tape' = d.tape
    /\ UNCHANGED <<pc, err, cfg, commEdges, weight, part_sizes, init_sizes, ig, ge,
                   nodes, adj, part_array, mtx, prev>>

\* lines 89-90: raise ValueError("mode must be 'power', 'lognormal'"), reached
\* inside the loop body, so only when the graph has an edge
VolumeRaise ==
    /\ pc = "volumes"
    /\ Len(raw) < Cardinality(commEdges)
    /\ cfg.mode \notin {"power", "lognormal"}
    /\ pc' = "error"
    /\ err' = "ValueError: mode"
    /\ UNCHANGED <<cfg, commEdges, weight, raw, rng, tape, part_sizes, init_sizes, ig,
                   ge, nodes, adj, part_array, mtx, prev>>

\* lines 94-106: the loop is over; rescale, G.setWeight for every edge, return G
VolumeApply ==
    /\ pc = "volumes"
    /\ Len(raw) = Cardinality(commEdges)
    /\ LET new == Rescaled(raw, cfg)
           es  == IterEdges(commEdges)
       IN  /\ raw' = new
           /\ weight' = [e \in commEdges |->
                            new[CHOOSE i \in 1 .. Len(es) : es[i] = e]]
    /\ pc' = "vol_return"
    /\ UNCHANGED <<err, cfg, commEdges, rng, tape, part_sizes, init_sizes, ig, ge,
                   nodes, adj, part_array, mtx, prev>>

\* ------------------------------------------------------------- the expanded graph
\* An undirected edge is the set of its endpoints: {a, b}, or {a} for a self-loop.
NoEdges == [e \in {} |-> 0]

\* G.addEdge(a, b): one more edge a-b; an edge that is there already is not looked for
AddEdge(g, a, b) ==
    IF {a, b} \in DOMAIN g
    THEN [g EXCEPT ![{a, b}] = @ + 1]
    ELSE [e \in DOMAIN g \cup {{a, b}} |-> IF e = {a, b} THEN 1 ELSE g[e]]

\* G.hasEdge(a, b)
GraphHasEdge(g, a, b) == {a, b} \in DOMAIN g

\* G.numberOfEdges()
NumberOfEdges(g) == SumOver(g, DOMAIN g)

\* G.degree(a): the entries of a's adjacency list
Degree(g, a) == SumOver(g, {e \in DOMAIN g : a \in e})

\* ------------------------------------------------------------- initialize_graph
\* line 272: seed = initg.get("seed")
InitSeed(c) == c.seed_init

\* rng.gauss(mean_01, sigma) in units of 1/Den: any real, here one below 0 to one above 1
GaussDraws == -1 .. Den + 1

\* lines 24-29: up to max_tries draws, the first one inside [0,1] is returned;
\* after max_tries rejections one more draw is clamped into [0,1].
\* The set of values the call can return.
RECURSIVE SampleTruncNormal01(_)
SampleTruncNormal01(tries_left) ==
    IF tries_left = 0
    THEN {Max(0, Min(Den, x)) : x \in GaussDraws}
    ELSE {x \in GaussDraws : 0 <= x /\ x <= Den}
         \cup (IF \E x \in GaussDraws : x < 0 \/ x > Den
               THEN SampleTruncNormal01(tries_left - 1) ELSE {})

\* the draw returned as it comes, neither rejected nor clamped
UntruncatedOutcomes == GaussDraws

TruncNormalOutcomes == SampleTruncNormal01(max_tries)

\* line 132
OutgoingWeights(E, w, u) ==
    [i \in 1 .. Len(IterNeighbors(E, u)) |-> w[<<u, IterNeighbors(E, u)[i]>>]]

SeqMin(s) == CHOOSE m \in {s[i] : i \in 1 .. Len(s)} :
                 \A i \in 1 .. Len(s) : m <= s[i]

\* line 142: int(min_weight + x * (max_weight - min_weight)), x = n/Den
PartSize(min_weight, max_weight, n) ==
    min_weight + ((n * (max_weight - min_weight)) \div Den)

\* lines 267-273 and 114-128: the call; rng; part_sizes = [0] * number_of_processes
CallInitializeGraph ==
    /\ pc = "vol_return"
    /\ raw' = <<>>
    /\ rng' = NewRng(InitSeed(cfg))
    /\ part_sizes' = [u \in Procs |-> 0]
    /\ ig' = 0
    /\ pc' = "init"
    /\ UNCHANGED <<err, cfg, commEdges, weight, tape, init_sizes, ge, nodes, adj,
                   part_array, mtx, prev>>

\* lines 130-145: one turn of the loop over the processes
SizeLoop ==
    /\ pc = "init"
    /\ ig < NumProcs
    /\ LET u  == ig
           ow == OutgoingWeights(commEdges, weight, u)
       IN  IF ow # <<>>
           THEN LET min_weight == SeqMin(ow)
                    max_weight == SumSeq(ow)
                IN  IF max_weight <= min_weight
                    THEN /\ part_sizes' = [part_sizes EXCEPT ![u] = min_weight]
                         /\ UNCHANGED <<rng, tape>>
                    ELSE \E d \in Draw([rng |-> rng, tape |-> tape], "sizes", "trunc",
                                       TruncNormalOutcomes) :
                            /\ part_sizes' = [part_sizes EXCEPT
                                   ![u] = PartSize(min_weight, max_weight, d.val)]
                            /\ rng' = d.rng
                            /\ tape' = d.tape
           ELSE /\ part_sizes' = [part_sizes EXCEPT ![u] = 0]
                /\ UNCHANGED <<rng, tape>>
    /\ ig' = ig + 1
    /\ UNCHANGED <<pc, err, cfg, commEdges, weight, raw, init_sizes, ge, nodes, adj,
                   part_array, mtx, prev>>

\* lines 147-150: G_init = nk.Graph(total_vertices, directed=False); return
ReturnInitializeGraph ==
    /\ pc = "init"
    /\ ig = NumProcs
    /\ nodes' = 0 .. SumOver(part_sizes, Procs) - 1
    /\ adj' = NoEdges
    /\ init_sizes' = part_sizes
    /\ ig' = 0
    /\ rng' = NoRng
    /\ pc' = "init_return"
    /\ UNCHANGED <<err, cfg, commEdges, weight, raw, tape, part_sizes, ge,
                   part_array, mtx, prev>>

\* ------------------------------------------------------------- generate_edges
\* the seed of the generate_edges section not handed on: random.Random(None)
EdgesSeedDropped(c) == 0

\* line 281: seed = edges.get("seed")
EdgesSeed(c) == c.seed_edges

NoEdgeLocals ==
    [processed |-> {}, u |-> 0, j |-> 1, phase |-> "",
     sampled_u |-> <<>>, sampled_v |-> <<>>]

\* lines 153-157: part_offsets
PartOffset(sizes, u) == SumOver(sizes, 0 .. u - 1)

\* rng.sample(population, k): every list of k distinct members, in any order
RngSample(population, k) ==
    {s \in [1 .. k -> population] : \A a, b \in 1 .. k : a # b => s[a] # s[b]}

\* lines 45-53
sample_distinct_from_range(start, size, sample_size) ==
    IF size <= 0 THEN {<<>>}
    ELSE RngSample(start .. start + size - 1, Max(0, Min(sample_size, size)))

\* edge_connection_prob = prob/Den
ProbValues == 0 .. Den

\* lines 275-282 and 153-160: the call, part_offsets, processed_pairs = set(), rng
CallGenerateEdges ==
    /\ pc = "init_return"
    /\ ge' = [NoEdgeLocals EXCEPT !.phase = "pairs"]
    /\ rng' = NewRng(EdgesSeed(cfg))
    /\ pc' = "edges"
    /\ UNCHANGED <<err, cfg, commEdges, weight, raw, tape, part_sizes, init_sizes, ig,
                   nodes, adj, part_array, mtx, prev>>

CurNeighbors == IterNeighbors(commEdges, ge.u)
CurV == CurNeighbors[ge.j]

\* line 161 / 165: the neighbours of u are exhausted, on to the next process
NextProcess ==
    /\ pc = "edges" /\ ge.phase = "pairs"
    /\ ge.u < NumProcs
    /\ ge.j > Len(CurNeighbors)
    /\ ge' = [ge EXCEPT !.u = @ + 1, !.j = 1]
    /\ UNCHANGED <<pc, err, cfg, commEdges, weight, raw, rng, tape, part_sizes,
                   init_sizes, ig, nodes, adj, part_array, mtx, prev>>

\* lines 166-167: the pair was processed as (u,v) or (v,u): continue
SkipPair ==
    /\ pc = "edges" /\ ge.phase = "pairs"
    /\ ge.u < NumProcs
    /\ ge.j <= Len(CurNeighbors)
    /\ <<ge.u, CurV>> \in ge.processed \/ <<CurV, ge.u>> \in ge.processed
    /\ ge' = [ge EXCEPT !.j = @ + 1]
    /\ UNCHANGED <<pc, err, cfg, commEdges, weight, raw, rng, tape, part_sizes,
                   init_sizes, ig, nodes, adj, part_array, mtx, prev>>

\* lines 168-186: a new pair: volumes, the size check (raise ValueError), the samples
SamplePair ==
    /\ pc = "edges" /\ ge.phase = "pairs"
    /\ ge.u < NumProcs
    /\ ge.j <= Len(CurNeighbors)
    /\ <<ge.u, CurV>> \notin ge.processed /\ <<CurV, ge.u>> \notin ge.processed
    /\ LET u == ge.u
           v == CurV
           send_vol_uv == weight[<<u, v>>]
           send_vol_vu == IF HasEdge(commEdges, v, u) THEN weight[<<v, u>>] ELSE 0
           start_u == PartOffset(part_sizes, u)
           size_u  == part_sizes[u]
           start_v == PartOffset(part_sizes, v)
           size_v  == part_sizes[v]
       IN  IF size_u = 0 \/ size_v = 0
           THEN /\ ge' = [ge EXCEPT !.processed = @ \cup {<<u, v>>}]
                /\ pc' = "error"
                /\ err' = "ValueError: sizes"
                /\ UNCHANGED <<rng, tape>>
           ELSE /\ \E su \in Draw([rng |-> rng, tape |-> tape], "edges", "sample",
                          sample_distinct_from_range(start_u, size_u, send_vol_uv)) :
                      \E sv \in Draw([rng |-> su.rng, tape |-> su.tape], "edges", "sample",
                             sample_distinct_from_range(start_v, size_v, send_vol_vu)) :
                         /\ ge' = [ge EXCEPT !.processed = @ \cup {<<u, v>>},
                                             !.sampled_u = su.val, !.sampled_v = sv.val,
                                             !.phase = "cover_u"]
                         /\ rng' = sv.rng
                         /\ tape' = sv.tape
                /\ UNCHANGED <<pc, err>>
    /\ UNCHANGED <<cfg, commEdges, weight, raw, part_sizes, init_sizes, ig, nodes, adj,
                   part_array, mtx, prev>>

\* rng.choice(seq): any member; IndexError on an empty sequence
RngChoice(s) == {s[n] : n \in 1 .. Len(s)}

\* A coverage loop: for every vertex of todo, in order, one rng.choice(pool) and
\* G.addEdge between the two.  The set of [g, rng, tape] the loop can end in.
RECURSIVE CoverFrom(_, _, _, _)
CoverFrom(g, rt, todo, pool) ==
    IF todo = <<>> THEN {[g |-> g, rng |-> rt.rng, tape |-> rt.tape]}
    ELSE UNION {CoverFrom(AddEdge(g, Head(todo), d.val),
                          [rng |-> d.rng, tape |-> d.tape], Tail(todo), pool) :
                   d \in Draw(rt, "edges", "choice", RngChoice(pool))}

\* lines 188-191: the first coverage loop
CoverU ==
    /\ pc = "edges" /\ ge.phase = "cover_u"
    /\ IF ge.sampled_u # <<>> /\ RngChoice(ge.sampled_v) = {}
       THEN /\ pc' = "error"
            /\ err' = "IndexError"
            /\ UNCHANGED <<ge, adj, rng, tape>>
       ELSE /\ \E c \in CoverFrom(adj, [rng |-> rng, tape |-> tape],
                                  ge.sampled_u, ge.sampled_v) :
                  /\ adj' = c.g
                  /\ rng' = c.rng
                  /\ tape' = c.tape
            /\ ge' = [ge EXCEPT !.phase = "cover_v"]
            /\ UNCHANGED <<pc, err>>
    /\ UNCHANGED <<cfg, commEdges, weight, raw, part_sizes, init_sizes, ig, nodes,
                   part_array, mtx, prev>>

\* lines 193-196: the second coverage loop
CoverV ==
    /\ pc = "edges" /\ ge.phase = "cover_v"
    /\ IF ge.sampled_v # <<>> /\ RngChoice(ge.sampled_u) = {}
       THEN /\ pc' = "error"
            /\ err' = "IndexError"
            /\ UNCHANGED <<ge, adj, rng, tape>>
       ELSE /\ \E c \in CoverFrom(adj, [rng |-> rng, tape |-> tape],
                                  ge.sampled_v, ge.sampled_u) :
                  /\ adj' = c.g
                  /\ rng' = c.rng
                  /\ tape' = c.tape
            /\ ge' = [ge EXCEPT !.phase = "dense"]
            /\ UNCHANGED <<pc, err>>
    /\ UNCHANGED <<cfg, commEdges, weight, raw, part_sizes, init_sizes, ig, nodes,
                   part_array, mtx, prev>>

\* for su in sampled_u: for sv in sampled_v: the pairs in loop order
CrossPairs(su, sv) ==
    [n \in 1 .. Len(su) * Len(sv) |->
        <<su[((n - 1) \div Len(sv)) + 1], sv[((n - 1) % Len(sv)) + 1]>>]

\* line 202: rng.random() < edge_connection_prob, with rng.random() = r/Den
Connects(r, prob) == r < prob

\* lines 199-203: for every pair in order: nothing if the edge is there, else one
\* rng.random() and the edge if it is below edge_connection_prob.
\* The set of [g, rng, tape] the loops can end in.
RECURSIVE DensifyFrom(_, _, _, _)
DensifyFrom(g, rt, pairs, prob) ==
    IF pairs = <<>> THEN {[g |-> g, rng |-> rt.rng, tape |-> rt.tape]}
    ELSE LET a == Head(pairs)[1]
             b == Head(pairs)[2]
         IN  IF GraphHasEdge(g, a, b)
             THEN DensifyFrom(g, rt, Tail(pairs), prob)
             ELSE UNION {DensifyFrom(IF Connects(d.val, prob) THEN AddEdge(g, a, b) ELSE g,
                                     [rng |-> d.rng, tape |-> d.tape], Tail(pairs), prob) :
                            d \in Draw(rt, "edges", "random", RandomDraws)}

\* lines 199-203, then back to the loop over the neighbours of u
Densify ==
    /\ pc = "edges" /\ ge.phase = "dense"
    /\ \E c \in DensifyFrom(adj, [rng |-> rng, tape |-> tape],
                            CrossPairs(ge.sampled_u, ge.sampled_v), cfg.prob) :
          /\ adj' = c.g
          /\ rng' = c.rng
          /\ tape' = c.tape
    /\ ge' = [ge EXCEPT !.phase = "pairs", !.j = @ + 1,
                        !.sampled_u = <<>>, !.sampled_v = <<>>]
    /\ UNCHANGED <<pc, err, cfg, commEdges, weight, raw, part_sizes, init_sizes, ig,
                   nodes, part_array, mtx, prev>>

\* line 205: return G_init
ReturnGenerateEdges ==
    /\ pc = "edges" /\ ge.phase = "pairs"
    /\ ge.u = NumProcs
    /\ ge' = NoEdgeLocals
    /\ rng' = NoRng
    /\ pc' = "cleanup"
    /\ UNCHANGED <<err, cfg, commEdges, weight, raw, tape, part_sizes, init_sizes, ig,
                   nodes, adj, part_array, mtx, prev>>

\* ------------------------------------------------------------- remove_isolated_nodes
\* line 208: [u for u in G.iterNodes() if G.degree(u) == 0]
IsolatedNodes(ns, g) == {n \in ns : Degree(g, n) = 0}

\* G.removeNode(i) for every i of rm: the nodes and their edges go, every other
\* node keeps its id
RemoveNodes(ns, rm) == ns \ rm
RemoveEdgesOf(g, rm) == [e \in {d \in DOMAIN g : d \cap rm = {}} |-> g[e]]

\* the recount without "offset += size": every range read from id 0
NewPartSizesNoOffset(sizes, ns) ==
    [p \in Procs |-> Cardinality({i \in 0 .. sizes[p] - 1 : i \in ns})]

\* lines 212-221: per original range, the ids that G.hasNode() still finds
NewPartSizes(sizes, ns) ==
    [p \in Procs |->
        Cardinality({i \in 0 .. sizes[p] - 1 : PartOffset(sizes, p) + i \in ns})]

\* lines 284 and 207-223
RemoveIsolatedNodes ==
    /\ pc = "cleanup"
    /\ LET isolated_nodes == IsolatedNodes(nodes, adj)
       IN  /\ nodes' = RemoveNodes(nodes, isolated_nodes)
           /\ adj' = RemoveEdgesOf(adj, isolated_nodes)
           /\ part_sizes' = NewPartSizes(part_sizes, RemoveNodes(nodes, isolated_nodes))
    /\ pc' = "parts"
    /\ UNCHANGED <<err, cfg, commEdges, weight, raw, rng, tape, init_sizes, ig, ge,
                   part_array, mtx, prev>>

\* ------------------------------------------------------------- generate_communication
\* G.numberOfNodes()
NumberOfNodes(ns) == Cardinality(ns)

\* lines 288-293: n zeros, then pid written at offset + i for i < size, in process
\* order (position w of the Python list is position w + 1 here)
PartArray(n, sizes) ==
    [w \in 1 .. n |->
        IF \E p \in Procs : PartOffset(sizes, p) < w /\ w <= PartOffset(sizes, p) + sizes[p]
        THEN CHOOSE p \in Procs :
                 PartOffset(sizes, p) < w /\ w <= PartOffset(sizes, p) + sizes[p]
        ELSE 0]

\* lines 285-295
BuildPartArray ==
    /\ pc = "parts"
    /\ part_array' = PartArray(NumberOfNodes(nodes), part_sizes)
    /\ pc' = "write"
    /\ UNCHANGED <<err, cfg, commEdges, weight, raw, rng, tape, part_sizes, init_sizes,
                   ig, ge, nodes, adj, mtx, prev>>

\* ------------------------------------------------------------- write_mtx
\* in_out.py lines 222-224: "u+1 v+1" for every edge of G.iterEdges()
MtxEntries(ns, g) ==
    {<<Max(ab[1], ab[2]) + 1, Min(ab[1], ab[2]) + 1>> :
        ab \in {xy \in ns \X ns : {xy[1], xy[2]} \in DOMAIN g}}

\* in_out.py lines 211-224: the header "n n m", then the edge lines
WriteMtx ==
    /\ pc = "write"
    /\ mtx' = [n |-> NumberOfNodes(nodes), m |-> NumberOfEdges(adj),
               entries |-> MtxEntries(nodes, adj)]
    /\ pc' = "done"
    /\ UNCHANGED <<err, cfg, commEdges, weight, raw, rng, tape, part_sizes, init_sizes,
                   ig, ge, nodes, adj, part_array, prev>>

\* ------------------------------------------------------------- the runs
\* G_directed: any directed graph over the processes, self-loops included
\* (every volume is at least 1, so a graph has at most MaxTotalVol edges)
CommGraphs == {E \in SUBSET (Procs \X Procs) : Cardinality(E) <= MaxTotalVol}

\* the weighted graphs gen_message_volumes can return: every volume in 1 .. MaxVolBound
WeightedGraphs(E) ==
    {w \in [E -> 1 .. MaxVolBound] : SumOver(w, E) <= MaxTotalVol}

\* target_mean values tried when one is given (0 drives every volume to the floor)
TargetMeans == 0 .. MaxVolBound + 1

\* the configuration: message_volumes, generate_edges, and the three seeds
\* (initialize_graph's mean_position and skew only shape the distribution of the draw)
Configs ==
    [mode : Modes, max_volume : 1 .. MaxVolBound, skew : 1 .. MaxSkew,
     heavy_tail : BOOLEAN, has_target : BOOLEAN, target_mean : TargetMeans,
     prob : ProbValues, seed_vol : {0} \cup Seeds, seed_init : {0} \cup Seeds,
     seed_edges : {0} \cup Seeds]

Unseeded(c) == c.seed_vol = 0 /\ c.seed_init = 0 /\ c.seed_edges = 0
PlainVolumes(c) ==
    c.mode = "power" /\ c.skew = 1 /\ ~c.heavy_tail /\ ~c.has_target /\ c.target_mean = 0

NoMtx == [n |-> 0, m |-> 0, entries |-> {}]

NoPrev == [run |-> 1, seeds |-> <<0, 0, 0>>, pc |-> "", err |-> "",
           weight |-> NoEdges, sizes |-> [u \in Procs |-> 0], adj |-> NoEdges]

\* generate_communication before the call of gen_message_volumes (line 257)
AtStart ==
    /\ pc = "start"
    /\ err = "none"
    /\ commEdges \in CommGraphs
    /\ weight = [e \in commEdges |-> 1]
    /\ raw = <<>>
    /\ rng = NoRng
    /\ tape = NoTape
    /\ part_sizes = [u \in Procs |-> 0]
    /\ init_sizes = [u \in Procs |-> 0]
    /\ ig = 0
    /\ ge = NoEdgeLocals
    /\ nodes = {}
    /\ adj = NoEdges
    /\ part_array = <<>>
    /\ mtx = NoMtx
    /\ prev = NoPrev

\* gen_message_volumes reads the graph as the list of its edges only: one graph
\* for every number of edges, the first m pairs in iteration order
VolumeGraphs == {{e \in Procs \X Procs : EdgeKey(e) < m} : m \in 0 .. MaxTotalVol}

\* the volume stage: any message_volumes section, no seed
InitVol ==
    /\ AtStart
    /\ commEdges \in VolumeGraphs
    /\ cfg \in {c \in Configs : Unseeded(c) /\ c.prob = 0
                                /\ (c.has_target \/ c.target_mean = 0)}

\* generate_communication when gen_message_volumes has returned (line 265), no seeds
Init ==
    /\ pc = "vol_return"
    /\ err = "none"
    /\ cfg \in {c \in Configs : Unseeded(c) /\ PlainVolumes(c)
                                /\ c.max_volume = MaxVolBound}
    /\ commEdges \in CommGraphs
    /\ weight \in WeightedGraphs(commEdges)
    /\ raw = <<>>
    /\ rng = NoRng
    /\ tape = NoTape
    /\ part_sizes = [u \in Procs |-> 0]
    /\ init_sizes = [u \in Procs |-> 0]
    /\ ig = 0
    /\ ge = NoEdgeLocals
    /\ nodes = {}
    /\ adj = NoEdges
    /\ part_array = <<>>
    /\ mtx = NoMtx
    /\ prev = NoPrev

\* the same, with edge_connection_prob 0, which initialize_graph does not read
InitSizes ==
    /\ Init
    /\ cfg.prob = 0

\* the same, on coarse graphs without self-loops
InitSimple ==
    /\ Init
    /\ \A e \in commEdges : e[1] # e[2]

\* two runs: a graph of at most MaxRerunVol edges without self-loops, the first
\* run with the first seed for every stage
InitRerun ==
    /\ AtStart
    /\ Cardinality(commEdges) <= MaxRerunVol
    /\ \A e \in commEdges : e[1] # e[2]
    /\ cfg \in {c \in Configs : /\ c.seed_vol = 1 /\ c.seed_init = 1 /\ c.seed_edges = 1
                                /\ c.max_volume = MaxVolBound /\ c.prob = 1
                                /\ c.skew = 1 /\ ~c.heavy_tail
                                /\ ~c.has_target /\ c.target_mean = 0}

\* generate_communication called once more on the same coarse graph, with the same
\* configuration but for the seed of initialize_graph or the seed of generate_edges:
\* both as before, or one of the two changed
Rerun ==
    /\ prev.run = 1
    /\ pc \in {"cleanup", "error"}
    /\ prev' = [run |-> 2, seeds |-> <<cfg.seed_vol, cfg.seed_init, cfg.seed_edges>>,
                pc |-> pc, err |-> err, weight |-> weight, sizes |-> init_sizes,
                adj |-> adj]
    /\ \E s2, s3 \in Seeds :
          /\ s2 = cfg.seed_init \/ s3 = cfg.seed_edges
          /\ cfg' = [cfg EXCEPT !.seed_init = s2, !.seed_edges = s3]
    /\ pc' = "start"
    /\ err' = "none"
    /\ weight' = [e \in commEdges |-> 1]
    /\ raw' = <<>>
    /\ rng' = NoRng
    /\ part_sizes' = [u \in Procs |-> 0]
    /\ init_sizes' = [u \in Procs |-> 0]
    /\ ig' = 0
    /\ ge' = NoEdgeLocals
    /\ nodes' = {}
    /\ adj' = NoEdges
    /\ UNCHANGED <<commEdges, tape, part_array, mtx>>

NextVol ==
    \/ CallGenMessageVolumes
    \/ VolumeLoop
    \/ VolumeRaise
    \/ VolumeApply

NextSizes ==
    \/ CallInitializeGraph
    \/ SizeLoop
    \/ ReturnInitializeGraph

NextExpand ==
    \/ NextSizes
    \/ CallGenerateEdges
    \/ NextProcess
    \/ SkipPair
    \/ SamplePair
    \/ CoverU
    \/ CoverV
    \/ Densify
    \/ ReturnGenerateEdges

NextOutput ==
    \/ RemoveIsolatedNodes
    \/ BuildPartArray
    \/ WriteMtx

Next == NextExpand \/ NextOutput

NextRerun == NextVol \/ NextExpand \/ Rerun

\* the volume stage alone, from an unweighted graph
SpecVol == InitVol /\ [][NextVol]_vars

\* initialize_graph alone, on a weighted graph
SpecSizes == InitSizes /\ [][NextSizes]_vars

\* the expansion of a weighted graph: sizes, edges, cleanup, partition array, output
Spec == Init /\ [][Next]_vars

\* the same on coarse graphs without self-loops
SpecSimple == InitSimple /\ [][Next]_vars

\* volumes, sizes and edges, run twice on the same graph with seeds given
SpecRerun == InitRerun /\ [][NextRerun]_vars

\* ------------------------------------------------------------- properties
\* the ids of process p's partition: part_offsets[p] .. part_offsets[p] + size - 1
PartitionRange(sizes, p) == PartOffset(sizes, p) .. PartOffset(sizes, p) + sizes[p] - 1

SeqRange(s) == {s[i] : i \in 1 .. Len(s)}

\* the edges of g, with their multiplicity, between the ranges R and S
EdgesBetween(g, R, S) ==
    SumOver(g, {e \in DOMAIN g : \E a \in R, b \in S : e = {a, b}})

\* C1: when initialize_graph has returned, the size of a process without outgoing
\* edge is 0, and the size of any other process lies between the smallest and the
\* sum of its outgoing volumes, and is the volume itself when there is one edge.
C1_SizeWithinOutgoingVolumes ==
    pc = "init_return" =>
        \A u \in Procs :
            LET ow == OutgoingWeights(commEdges, weight, u)
            IN  IF ow = <<>> THEN init_sizes[u] = 0
                ELSE /\ SeqMin(ow) <= init_sizes[u]
                     /\ init_sizes[u] <= SumSeq(ow)
                     /\ Len(ow) = 1 => init_sizes[u] = ow[1]

\* initialize_graph has returned a size strictly between the two ends for a process
\* with several outgoing edges, and 0 for a process with none
C1_Witness ==
    /\ pc = "init_return"
    /\ \E u \in Procs :
          LET ow == OutgoingWeights(commEdges, weight, u)
          IN  Len(ow) >= 2 /\ SeqMin(ow) < init_sizes[u] /\ init_sizes[u] < SumSeq(ow)
    /\ \E u \in Procs : OutgoingWeights(commEdges, weight, u) = <<>> /\ init_sizes[u] = 0

\* C2: with a valid mode, every volume of the list raw, before and after the
\* rescaling, and every weight gen_message_volumes has written, is an integer in
\* 1 .. max_volume.
C2_VolumesWithinRange ==
    cfg.mode \in {"power", "lognormal"} =>
        /\ \A i \in 1 .. Len(raw) : raw[i] \in 1 .. cfg.max_volume
        /\ pc = "vol_return" => \A e \in commEdges : weight[e] \in 1 .. cfg.max_volume

\* gen_message_volumes has returned after a rescaling that the clamp cut at max_volume
C2_Witness ==
    /\ pc = "vol_return"
    /\ cfg.has_target
    /\ commEdges # {}
    /\ cfg.target_mean > cfg.max_volume
    /\ \A e \in commEdges : weight[e] = cfg.max_volume

\* the coverage pass of the current pair is over: it ran to its end, or it raised
CoverageEnded ==
    \/ pc = "edges" /\ ge.phase = "dense"
    \/ pc = "error" /\ err = "IndexError"

\* C3: once the coverage pass of a pair has ended, every vertex of the sampled
\* u-set has an edge to a vertex of v's partition and every vertex of the sampled
\* v-set has an edge to a vertex of u's partition.
C3_CoveragePassCoversSamples ==
    CoverageEnded =>
        /\ \A a \in SeqRange(ge.sampled_u) :
              \E b \in PartitionRange(part_sizes, CurV) : GraphHasEdge(adj, a, b)
        /\ \A b \in SeqRange(ge.sampled_v) :
              \E a \in PartitionRange(part_sizes, ge.u) : GraphHasEdge(adj, a, b)

\* C4: while generate_edges runs, every edge of the expanded graph joins a vertex
\* of one process's partition range and a vertex of another process's range.
C4_EdgesJoinDifferentPartitions ==
    pc = "edges" =>
        \A e \in DOMAIN adj :
            \E p, q \in Procs :
                /\ p # q
                /\ \E a \in PartitionRange(part_sizes, p),
                      b \in PartitionRange(part_sizes, q) : e = {a, b}

\* len(sample_distinct_from_range(..)) for the volume u sends to v
SampleSize(u, v) ==
    IF HasEdge(commEdges, u, v) THEN Max(0, Min(weight[<<u, v>>], part_sizes[u])) ELSE 0

\* C5: with edge_connection_prob = 1.0, when generate_edges has returned, the
\* number of edges between the partitions of every communicating pair {u, v} is
\* |sampled_u| * |sampled_v|.
C5_CompleteBipartiteEdgeCount ==
    (pc = "cleanup" /\ cfg.prob = Den) =>
        \A u, v \in Procs :
            (u < v /\ (HasEdge(commEdges, u, v) \/ HasEdge(commEdges, v, u))) =>
                EdgesBetween(adj, PartitionRange(part_sizes, u),
                             PartitionRange(part_sizes, v))
                    = SampleSize(u, v) * SampleSize(v, u)

\* C6: the step of remove_isolated_nodes leaves no vertex of degree 0, keeps every
\* vertex of degree >= 1 and every edge, and returns for each process the number of
\* surviving vertices of its original range, so that the sizes sum to the vertex
\* count.
C6_CleanupKeepsConnectedVertices ==
    [][pc = "cleanup" =>
          /\ \A n \in nodes' : Degree(adj', n) >= 1
          /\ \A n \in nodes : Degree(adj, n) >= 1 => n \in nodes'
          /\ adj' = adj
          /\ \A p \in Procs :
                part_sizes'[p] = Cardinality(nodes' \cap PartitionRange(part_sizes, p))
          /\ SumOver(part_sizes', Procs) = NumberOfNodes(nodes')]_vars

\* remove_isolated_nodes has removed a vertex below a vertex that survived
C6_Witness ==
    /\ pc = "parts"
    /\ \E a \in nodes : \E b \in 0 .. a - 1 : b \notin nodes
    /\ \E p \in Procs : 0 < part_sizes[p] /\ part_sizes[p] < init_sizes[p]

\* C7: at the end, part_array has one entry per vertex of the final graph, and
\* every vertex id w written to the output is below the vertex count, with
\* part_array[w] the process whose original range held w.
C7_PartArrayMatchesVertexIds ==
    pc = "done" =>
        /\ Len(part_array) = mtx.n
        /\ \A ln \in mtx.entries : \A k \in 1 .. 2 :
              LET w == ln[k] - 1
              IN  /\ w < mtx.n
                  /\ w \in PartitionRange(init_sizes, part_array[w + 1])

\* C8: with a mode other than "power" and "lognormal", gen_message_volumes ends in
\* the ValueError, with no draw made and no weight changed.
C8_InvalidModeRaises ==
    (cfg.mode \notin {"power", "lognormal"} /\ pc \notin {"start", "volumes"}) =>
        /\ pc = "error"
        /\ err = "ValueError: mode"
        /\ rng.calls = 0
        /\ weight = [e \in commEdges |-> 1]

\* C9: generate_edges fails only with the ValueError of a pair that has an empty
\* partition, and goes on with a pair only when both partitions are non-empty.
C9_FailsOnlyOnEmptyPartition ==
    /\ pc = "error" =>
          /\ err = "ValueError: sizes"
          /\ part_sizes[ge.u] = 0 \/ part_sizes[CurV] = 0
          /\ EdgesBetween(adj, PartitionRange(part_sizes, ge.u),
                          PartitionRange(part_sizes, CurV)) = 0
    /\ (pc = "edges" /\ ge.phase \in {"cover_u", "cover_v", "dense"}) =>
          part_sizes[ge.u] > 0 /\ part_sizes[CurV] > 0

\* the stage of the second run has returned (or a later one has raised)
VolumesDone == pc \notin {"start", "volumes"}
SizesDone ==
    \/ pc \in {"init_return", "edges", "cleanup"}
    \/ pc = "error" /\ err # "ValueError: mode"
EdgesDone == pc \in {"cleanup", "error"}

\* C10: in a second run on the same graph with the same parameters, the weights
\* are those of the first run when the volume seed is the same, the partition
\* sizes too when the initialize_graph seed is also the same, and the edges and
\* the outcome too when the generate_edges seed is also the same.
C10_SeededRunsRepeat ==
    prev.run = 2 =>
        /\ (VolumesDone /\ cfg.seed_vol = prev.seeds[1]) => weight = prev.weight
        /\ (SizesDone /\ cfg.seed_vol = prev.seeds[1] /\ cfg.seed_init = prev.seeds[2]) =>
              init_sizes = prev.sizes
        /\ (EdgesDone /\ cfg.seed_vol = prev.seeds[1] /\ cfg.seed_init = prev.seeds[2]
                /\ cfg.seed_edges = prev.seeds[3]) =>
              /\ adj = prev.adj
              /\ pc = prev.pc
              /\ err = prev.err

\* the second run, with the three seeds of the first, has returned the graph of the
\* first run, made of drawn volumes above 1 and of several drawn edges
C10_Witness ==
    /\ prev.run = 2
    /\ pc = "cleanup"
    /\ <<cfg.seed_vol, cfg.seed_init, cfg.seed_edges>> = prev.seeds
    /\ \E e \in commEdges : weight[e] > 1
    /\ Cardinality(DOMAIN adj) >= 2
    /\ adj = prev.adj

\* C11: for every directed edge u->v, weight(u->v) <= size[u] in the array
\* initialize_graph returned; and the sampled u-set of a pair has exactly
\* weight(u->v) distinct vertices, all inside u's partition range.
C11_VolumeFitsPartition ==
    /\ pc \in {"init_return", "edges"} =>
          \A e \in commEdges : weight[e] <= init_sizes[e[1]]
    /\ (pc = "edges" /\ ge.phase \in {"cover_u", "cover_v", "dense"}) =>
          /\ Len(ge.sampled_u) = weight[<<ge.u, CurV>>]
          /\ Cardinality(SeqRange(ge.sampled_u)) = Len(ge.sampled_u)
          /\ SeqRange(ge.sampled_u) \subseteq PartitionRange(part_sizes, ge.u)

\* C12: while generate_edges runs, the expanded graph holds every undirected edge
\* {a, b} at most once, so a step that picks connected vertices does not add to the
\* edge count, and no edge that is present is removed.
C12_EdgesHeldOnce ==
    [][pc = "edges" =>
          /\ \A e \in DOMAIN adj' : adj'[e] = 1
          /\ NumberOfEdges(adj') = Cardinality(DOMAIN adj')
          /\ DOMAIN adj \subseteq DOMAIN adj']_vars

\* line 166: (u, v) in processed_pairs or (v, u) in processed_pairs
AlreadyProcessed(processed, u, v) == <<u, v>> \in processed \/ <<v, u>> \in processed

\* the loop over the processes and their out-neighbours is over
PairLoopOver == pc = "edges" /\ ge.phase = "pairs" /\ ge.u = NumProcs

\* C13: in one call of generate_edges a pair is processed only if it has a directed
\* edge and only the first time it is met, in one of its two orders; a pair that is
\* met with both partitions non-empty is sampled and wired, so the call does not
\* stop at it; and when the loop is over every pair with a directed edge in at
\* least one direction has been processed.
C13_EveryPairProcessedOnce ==
    pc \in {"edges", "error"} =>
        /\ \A e \in ge.processed :
              /\ HasEdge(commEdges, e[1], e[2])
              /\ e[1] # e[2] => <<e[2], e[1]>> \notin ge.processed
        /\ PairLoopOver =>
              \A u, v \in Procs :
                  (HasEdge(commEdges, u, v) \/ HasEdge(commEdges, v, u)) =>
                      AlreadyProcessed(ge.processed, u, v)
        /\ pc = "error" => part_sizes[ge.u] = 0 \/ part_sizes[CurV] = 0

=============================================================================
